---- MODULE Spec2Model ----
\* A model of the JobFlow backend (src/main.py): the users and jobs tables,
\* the signup / login handlers, the bearer-token gateway and the four job
\* handlers, with concurrent clients and a wall clock.
EXTENDS Integers, Sequences, FiniteSets, TLC

(***************************************************************************)
(* Bounds of the model.                                                    *)
(***************************************************************************)
\* number of clients that issue requests concurrently
NumClients == 2
\* cap on the values drawn from the users.id sequence (INSERT attempts)
MaxUserSeq == 3
\* cap on the values drawn from the jobs.id sequence
MaxJobSeq == 2
\* number of clock instants modelled past (expiry of a token issued at 0) - 1
MaxSkew == 2

Clients == 1..NumClients

(***************************************************************************)
(* Program constants.                                                      *)
(***************************************************************************)
SECRET_KEY == "jobflow-secret-key-2026-change-in-production"
ALGORITHM == "HS256"
ACCESS_TOKEN_EXPIRE_MINUTES == 10080
\* username and password policy of signup
MinUsernameLen == 3
MinPasswordLen == 6

\* timedelta(minutes=...) in the seconds that the token's exp claim counts
TokenTTL == ACCESS_TOKEN_EXPIRE_MINUTES * 60

(***************************************************************************)
(* Inputs the clients draw from.                                           *)
(***************************************************************************)
OtherKey == "attacker-key"

\* the request bodies of POST /jobs and PUT /jobs/{id}: untyped dicts, the
\* last one lacking the "company" key
JobKeys == {"company", "role", "status", "applied_date"}
AppliedBody == [company |-> "Acme", role |-> "Eng", status |-> "applied", applied_date |-> 1]
JobBodies ==
    { AppliedBody,
      [company |-> "Acme", role |-> "Eng", status |-> "interview", applied_date |-> 2],
      [role |-> "Eng", status |-> "applied", applied_date |-> 1] }

\* the instants the wall clock visits (seconds since the epoch of the run)
ClockInstants == {0} \cup { TokenTTL - 1 + k : k \in 0..MaxSkew }

VARIABLES
    users,      \* committed rows of table users
    user_seq,   \* last value of the sequence behind users.id
    jobs,       \* committed rows of table jobs
    job_seq,    \* last value of the sequence behind jobs.id
    now,        \* datetime.utcnow(), in seconds
    pc,         \* per client: position of its signup request in flight
    frame,      \* per client: locals of the signup in flight (user, row inserted)
    held,       \* per client: the token it keeps from its last signup / login
    last        \* the request completed by the step just taken, if any

vars == <<users, user_seq, jobs, job_seq, now, pc, frame, held, last>>

(***************************************************************************)
(* Password hashing.                                                       *)
(***************************************************************************)
\* hashlib.sha256(password.encode()).hexdigest(): deterministic, unsalted,
\* collision-free on the passwords of the model
hash_password(password) == <<"sha256", password>>

\* (a comparison that accepts every password)
verify_password_any(plain_password, hashed_password) == hashed_password # <<>>

verify_password(plain_password, hashed_password) ==
    hash_password(plain_password) = hashed_password

(***************************************************************************)
(* Tokens (python-jose, HS256).                                            *)
(***************************************************************************)
\* HMAC of the claims under a key: equal only for the same key and claims
HS256(claims, key) == <<key, claims>>

\* jwt.encode: the claims and their signature
jwt_encode(claims, key) == [wellformed |-> TRUE, claims |-> claims, sig |-> HS256(claims, key)]

\* a string that is not three base64 segments
MalformedToken == [wellformed |-> FALSE, claims |-> <<>>, sig |-> <<>>]

\* jwt.decode(token, key, algorithms=[ALGORITHM]) at instant t: the claims, or
\* the JWTError raised. The exp claim is rejected when exp < now (jose's
\* _validate_exp, leeway 0).
jwt_decode(token, key, t) ==
    IF ~token.wellformed THEN [error |-> "JWTError", claims |-> <<>>]
    ELSE IF token.sig # HS256(token.claims, key)
        THEN [error |-> "JWTError", claims |-> <<>>]
    ELSE IF "exp" \in DOMAIN token.claims /\ token.claims.exp < t
        THEN [error |-> "ExpiredSignatureError", claims |-> <<>>]
    ELSE [error |-> "", claims |-> token.claims]

\* (the expiry taken before the issue instant instead of after it)
create_access_token_past(data, t) ==
    jwt_encode(data @@ [exp |-> t - TokenTTL], SECRET_KEY)

\* create_access_token(data) at instant t
create_access_token(data, t) ==
    jwt_encode(data @@ [exp |-> t + TokenTTL], SECRET_KEY)

\* an HTTPException, and the result of a dependency that resolved
HTTPException(status_code, detail) ==
    [ok |-> FALSE, user_id |-> 0, status |-> status_code, detail |-> detail]
Resolved(user_id) == [ok |-> TRUE, user_id |-> user_id, status |-> 200, detail |-> ""]

\* (a gateway that tells the client when a token has expired)
get_current_user_leaky(token, t) ==
    LET r == jwt_decode(token, SECRET_KEY, t) IN
    IF r.error = "ExpiredSignatureError" THEN HTTPException(401, "Token expired")
    ELSE IF r.error # "" THEN HTTPException(401, "Invalid token")
    ELSE IF "user_id" \notin DOMAIN r.claims THEN HTTPException(401, "Invalid token")
    ELSE Resolved(r.claims.user_id)

\* get_current_user(credentials) at instant t, credentials.credentials = token
get_current_user(token, t) ==
    LET r == jwt_decode(token, SECRET_KEY, t) IN
    IF r.error # "" THEN HTTPException(401, "Invalid token")
    ELSE IF "user_id" \notin DOMAIN r.claims THEN HTTPException(401, "Invalid token")
    ELSE Resolved(r.claims.user_id)

\* The status HTTPBearer() answers with when the request has no Authorization
\* header: 403 in the FastAPI releases before 0.122, 401 since; the
\* repository pins no release.
NotAuthenticatedStatus == {401, 403}

\* security = HTTPBearer() followed by get_current_user: creds is <<>> for a
\* request without Authorization header and <<token>> for a bearer token.
\* The set of results the dependency can give.
Authenticate(creds, t) ==
    IF creds = <<>>
      THEN { HTTPException(s, "Not authenticated") : s \in NotAuthenticatedStatus }
      ELSE { get_current_user(creds[1], t) }

(***************************************************************************)
(* The relational store.                                                   *)
(***************************************************************************)
\* SELECT id FROM users WHERE email=%s OR username=%s
SelectUserByEmailOrUsername(email, username) ==
    { u \in users : u.email = email \/ u.username = username }

\* SELECT * FROM users WHERE email=%s
SelectUserByEmail(email) == { u \in users : u.email = email }

\* (the table without the UNIQUE constraint on email)
UniqueUsernameOnly(rows, username, email) == { u \in rows : u.username = username }

\* username VARCHAR(100) UNIQUE, email VARCHAR(100) UNIQUE: the rows of a set
\* that collide with a new row
UniqueConflicts(rows, username, email) ==
    { u \in rows : u.username = username \/ u.email = email }

\* rows inserted by transactions that have not committed yet, other than c's
Uncommitted(c) ==
    { frame[d].row[1] : d \in { e \in Clients \ {c} : frame[e].row # <<>> } }

\* SELECT * FROM jobs WHERE user_id=%s
SelectJobs(user_id) == { j \in jobs : j.user_id = user_id }

\* ORDER BY applied_date DESC: every listing of the rows in descending date
\* order (rows of equal date come in any order)
OrderByAppliedDateDesc(rows) ==
    { s \in [1..Cardinality(rows) -> rows] :
        /\ \A i, k \in DOMAIN s : i # k => s[i] # s[k]
        /\ \A i, k \in DOMAIN s : i < k => s[i].applied_date >= s[k].applied_date }

\* (the statement without its owner filter)
DeleteJobRowsAnyOwner(rows, job_id, user_id) == { j \in rows : j.id # job_id }

\* DELETE FROM jobs WHERE id=%s AND user_id=%s
DeleteJobRows(rows, job_id, user_id) ==
    { j \in rows : ~(j.id = job_id /\ j.user_id = user_id) }

\* UPDATE jobs SET company, role, status, applied_date WHERE id=%s AND user_id=%s
UpdateJobRows(rows, job, job_id, user_id) ==
    { IF j.id = job_id /\ j.user_id = user_id
        THEN [j EXCEPT !.company = job.company, !.role = job.role,
                       !.status = job.status, !.applied_date = job.applied_date]
        ELSE j : j \in rows }

\* INSERT INTO jobs (company, role, status, applied_date, user_id): the new row
JobRow(id, job, user_id) ==
    [id |-> id, company |-> job.company, role |-> job.role, status |-> job.status,
     applied_date |-> job.applied_date, user_id |-> user_id]

\* user_id INTEGER REFERENCES users(id)
ForeignKeyOk(user_id) == \E u \in users : u.id = user_id

(***************************************************************************)
(* Requests and responses.                                                 *)
(***************************************************************************)
NoFrame == [user |-> <<>>, row |-> <<>>]

\* what a step reports of the request it completed: the inputs, the caller the
\* gateway bound, the response and the statements sent over its connection
NoRequest ==
    [client |-> 0, op |-> "none", form |-> <<>>, creds |-> <<>>, job_id |-> 0,
     user_id |-> 0, status |-> 0, detail |-> "", token |-> <<>>, user |-> <<>>, body |-> <<>>,
     dblog |-> <<>>]

Completed(c, op, status, detail, dblog) ==
    [NoRequest EXCEPT !.client = c, !.op = op, !.status = status,
                      !.detail = detail, !.dblog = dblog]

\* the `user` object of a signup / login response
UserView(u) == [id |-> u.id, username |-> u.username, email |-> u.email]

Init ==
    /\ users = {}
    /\ user_seq = 0
    /\ jobs = {}
    /\ job_seq = 0
    /\ now = 0
    /\ pc = [c \in Clients |-> "idle"]
    /\ frame = [c \in Clients |-> NoFrame]
    /\ held = [c \in Clients |-> <<>>]
    /\ last = NoRequest

(***************************************************************************)
(* POST /signup                                                            *)
(***************************************************************************)
\* the first failing check of lines 133-140, or "" when the input passes
SignupValidation(user) ==
    IF user.username = "" \/ user.email = "" \/ user.password = ""
        THEN "All fields required"
    ELSE IF Len(user.username) < MinUsernameLen
        THEN "Username must be at least 3 characters"
    ELSE IF Len(user.password) < MinPasswordLen
        THEN "Password must be at least 6 characters"
    ELSE ""

\* lines 129-144: connect, validate, pre-check for an existing user
signup_check(c, user) ==
    /\ pc[c] = "idle"
    /\ LET invalid == SignupValidation(user)
           found == SelectUserByEmailOrUsername(user.email, user.username)
       IN IF invalid # ""
            THEN /\ last' = [Completed(c, "signup", 400, invalid,
                                       <<"connect", "rollback", "close">>)
                                EXCEPT !.form = <<user>>]
                 /\ UNCHANGED <<pc, frame>>
          ELSE IF found # {}
            THEN /\ last' = [Completed(c, "signup", 400, "User already exists",
                                       <<"connect", "select", "rollback", "close">>)
                                EXCEPT !.form = <<user>>]
                 /\ UNCHANGED <<pc, frame>>
          ELSE /\ pc' = [pc EXCEPT ![c] = "insert"]
               /\ frame' = [frame EXCEPT ![c] = [user |-> <<user>>, row |-> <<>>]]
               /\ last' = NoRequest
    /\ UNCHANGED <<users, user_seq, jobs, job_seq, now, held>>

\* lines 146-151 (and 163-168 when the statement fails): INSERT ... RETURNING id.
\* The statement waits while an uncommitted row of another transaction holds
\* the same username or email.
signup_insert(c) ==
    /\ pc[c] = "insert"
    /\ user_seq < MaxUserSeq
    /\ LET user == frame[c].user[1] IN
       /\ UniqueConflicts(Uncommitted(c), user.username, user.email) = {}
       /\ user_seq' = user_seq + 1
       /\ IF UniqueConflicts(users, user.username, user.email) # {}
            THEN /\ last' = [Completed(c, "signup", 400,
                                       "duplicate key value violates unique constraint",
                                       <<"connect", "select", "insert", "rollback", "close">>)
                                EXCEPT !.form = <<user>>]
                 /\ pc' = [pc EXCEPT ![c] = "idle"]
                 /\ frame' = [frame EXCEPT ![c] = NoFrame]
            ELSE /\ frame' = [frame EXCEPT ![c].row =
                        << [id |-> user_seq + 1, username |-> user.username,
                            email |-> user.email,
                            password_hash |-> hash_password(user.password)] >>]
                 /\ pc' = [pc EXCEPT ![c] = "commit"]
                 /\ last' = NoRequest
    /\ UNCHANGED <<users, jobs, job_seq, now, held>>

\* lines 152-159 and 166-168: commit, issue the token, answer, close
signup_commit(c) ==
    /\ pc[c] = "commit"
    /\ LET user == frame[c].user[1]
           row == frame[c].row[1]
           token == create_access_token([user_id |-> row.id], now)
       IN /\ users' = users \cup {row}
          /\ held' = [held EXCEPT ![c] = <<token>>]
          /\ last' = [Completed(c, "signup", 200, "",
                                <<"connect", "select", "insert", "commit", "close">>)
                        EXCEPT !.form = <<user>>, !.token = <<token>>,
                               !.user = <<UserView(row)>>]
    /\ pc' = [pc EXCEPT ![c] = "idle"]
    /\ frame' = [frame EXCEPT ![c] = NoFrame]
    /\ UNCHANGED <<user_seq, jobs, job_seq, now>>

(***************************************************************************)
(* POST /login                                                             *)
(***************************************************************************)
login(c, user) ==
    /\ pc[c] = "idle"
    /\ LET found == SelectUserByEmail(user.email)
           dblog == <<"connect", "select", "close">>
       IN IF found = {} \/ \A u \in found : ~verify_password(user.password, u.password_hash)
            THEN /\ last' = [Completed(c, "login", 401, "Invalid email or password", dblog)
                                EXCEPT !.form = <<user>>]
                 /\ UNCHANGED held
            ELSE \E db_user \in found :
                    LET token == create_access_token([user_id |-> db_user.id], now) IN
                    /\ held' = [held EXCEPT ![c] = <<token>>]
                    /\ last' = [Completed(c, "login", 200, "", dblog)
                                  EXCEPT !.form = <<user>>, !.token = <<token>>,
                                         !.user = <<UserView(db_user)>>]
    /\ UNCHANGED <<users, user_seq, jobs, job_seq, now, pc, frame>>

\* What a client puts in the Authorization header, by kind: nothing, the
\* token it holds, or a token that cannot validate (not a JWT, signed with
\* another key, claims changed after signing, signed but without user_id).
CredentialKinds == {"none", "held", "malformed", "otherkey", "tampered", "nouserid"}
Credentials(c, kind) ==
    CASE kind = "none" -> { <<>> }
      [] kind = "held" -> { <<held[c][i]>> : i \in DOMAIN held[c] }
      [] kind = "malformed" -> { <<MalformedToken>> }
      [] kind = "otherkey" ->
            { <<jwt_encode([user_id |-> 1, exp |-> now + TokenTTL], OtherKey)>> }
      [] kind = "tampered" ->
            { <<[held[c][i] EXCEPT !.claims.user_id = u]>> :
                i \in DOMAIN held[c], u \in (1..user_seq) \ {held[c][j].claims.user_id : j \in DOMAIN held[c]} }
      [] kind = "nouserid" ->
            { <<jwt_encode([exp |-> now + TokenTTL], SECRET_KEY)>> }

(***************************************************************************)
(* The protected job handlers.                                             *)
(***************************************************************************)
\* the response of a request the gateway rejects: no handler code runs
Rejected(c, op, creds, auth) ==
    [Completed(c, op, auth.status, auth.detail, <<>>) EXCEPT !.creds = creds]

\* the response of a handler that ran as user_id
Handled(c, op, creds, user_id, status, detail, dblog) ==
    [Completed(c, op, status, detail, dblog) EXCEPT !.creds = creds, !.user_id = user_id]

\* GET /jobs
get_jobs(c, kind) ==
    /\ pc[c] = "idle"
    /\ \E creds \in Credentials(c, kind) : \E auth \in Authenticate(creds, now) :
       IF ~auth.ok
         THEN last' = Rejected(c, "get_jobs", creds, auth)
         ELSE \E rows \in OrderByAppliedDateDesc(SelectJobs(auth.user_id)) :
                last' = [Handled(c, "get_jobs", creds, auth.user_id, 200, "",
                                 <<"connect", "select", "close">>)
                           EXCEPT !.body = rows]
    /\ UNCHANGED <<users, user_seq, jobs, job_seq, now, pc, frame, held>>

\* POST /jobs
add_job(c, kind, job) ==
    /\ pc[c] = "idle"
    /\ job_seq < MaxJobSeq
    /\ \E creds \in Credentials(c, kind) : \E auth \in Authenticate(creds, now) :
       IF ~auth.ok
         THEN /\ last' = Rejected(c, "add_job", creds, auth)
              /\ UNCHANGED <<jobs, job_seq>>
       ELSE IF ~(JobKeys \subseteq DOMAIN job)
         \* KeyError while the parameters are built: lines 213-215 never run
         THEN /\ last' = Handled(c, "add_job", creds, auth.user_id, 500,
                                 "Internal Server Error", <<"connect">>)
              /\ UNCHANGED <<jobs, job_seq>>
       ELSE IF ~ForeignKeyOk(auth.user_id)
         THEN /\ last' = Handled(c, "add_job", creds, auth.user_id, 500,
                                 "Internal Server Error", <<"connect", "insert">>)
              /\ job_seq' = job_seq + 1
              /\ UNCHANGED jobs
       ELSE /\ jobs' = jobs \cup {JobRow(job_seq + 1, job, auth.user_id)}
            /\ job_seq' = job_seq + 1
            /\ last' = Handled(c, "add_job", creds, auth.user_id, 200, "Job added",
                               <<"connect", "insert", "commit", "close">>)
    /\ UNCHANGED <<users, user_seq, now, pc, frame, held>>

\* DELETE /jobs/{job_id}
delete_job(c, kind, job_id) ==
    /\ pc[c] = "idle"
    /\ \E creds \in Credentials(c, kind) : \E auth \in Authenticate(creds, now) :
       IF ~auth.ok
         THEN /\ last' = [Rejected(c, "delete_job", creds, auth) EXCEPT !.job_id = job_id]
              /\ UNCHANGED jobs
         ELSE /\ jobs' = DeleteJobRows(jobs, job_id, auth.user_id)
              /\ last' = [Handled(c, "delete_job", creds, auth.user_id, 200, "Deleted",
                                  <<"connect", "delete", "commit", "close">>)
                            EXCEPT !.job_id = job_id]
    /\ UNCHANGED <<users, user_seq, job_seq, now, pc, frame, held>>

\* PUT /jobs/{job_id}
update_job(c, kind, job_id, job) ==
    /\ pc[c] = "idle"
    /\ \E creds \in Credentials(c, kind) : \E auth \in Authenticate(creds, now) :
       IF ~auth.ok
         THEN /\ last' = [Rejected(c, "update_job", creds, auth) EXCEPT !.job_id = job_id]
              /\ UNCHANGED jobs
       ELSE IF ~(JobKeys \subseteq DOMAIN job)
         THEN /\ last' = [Handled(c, "update_job", creds, auth.user_id, 500,
                                  "Internal Server Error", <<"connect">>)
                            EXCEPT !.job_id = job_id]
              /\ UNCHANGED jobs
       ELSE /\ jobs' = UpdateJobRows(jobs, job, job_id, auth.user_id)
            /\ last' = [Handled(c, "update_job", creds, auth.user_id, 200, "Updated",
                                <<"connect", "update", "commit", "close">>)
                          EXCEPT !.job_id = job_id]
    /\ UNCHANGED <<users, user_seq, job_seq, now, pc, frame, held>>

(***************************************************************************)
(* The environment: clients and the clock.                                 *)
(***************************************************************************)
\* the bodies of POST /signup: two valid accounts, the same with the other's
\* email or username, and bodies that break the input policy
SignupForms ==
    { [username |-> "alice", email |-> "a@x.com", password |-> "secret1"],
      [username |-> "bob", email |-> "b@x.com", password |-> "secret2"],
      [username |-> "bob", email |-> "a@x.com", password |-> "secret2"],
      [username |-> "alice", email |-> "b@x.com", password |-> "secret1"],
      [username |-> "al", email |-> "a@x.com", password |-> "secret1"],
      [username |-> "bob", email |-> "b@x.com", password |-> "short"],
      [username |-> "bob", email |-> "", password |-> "secret2"] }

\* the two accounts, and their logins
ValidForms ==
    { [username |-> "alice", email |-> "a@x.com", password |-> "secret1"],
      [username |-> "bob", email |-> "b@x.com", password |-> "secret2"] }
ValidLogins ==
    { [email |-> "a@x.com", password |-> "secret1"],
      [email |-> "b@x.com", password |-> "secret2"] }

\* the bodies of POST /login
LoginForms == [email : {"a@x.com", "b@x.com", "c@x.com"}, password : {"secret1", "secret2"}]

\* the wall clock moves on
Tick ==
    /\ \E t \in ClockInstants : t > now /\ now' = t
    /\ last' = NoRequest
    /\ UNCHANGED <<users, user_seq, jobs, job_seq, pc, frame, held>>

\* the requests of the clients in C: signups with the bodies in forms,
\* logins with the bodies in logins
AccountStep(C, forms, logins) ==
    \E c \in C :
        \/ \E user \in forms : signup_check(c, user)
        \/ signup_insert(c)
        \/ signup_commit(c)
        \/ \E user \in logins : login(c, user)

\* the requests of client c to the protected operations, with credentials of
\* the kinds in kinds and the request bodies in bodies
JobStep(c, kinds, bodies) ==
    \E kind \in kinds :
        \/ get_jobs(c, kind)
        \/ \E job \in bodies : add_job(c, kind, job)
        \/ \E job_id \in 1..MaxJobSeq : delete_job(c, kind, job_id)
        \/ \E job_id \in 1..MaxJobSeq, job \in bodies : update_job(c, kind, job_id, job)

\* Accounts: concurrent clients sign up and log in.
NextAccounts == AccountStep(Clients, SignupForms, LoginForms)

SpecAccounts == Init /\ [][NextAccounts]_vars

\* Gateway: one client signs up, logs in and calls the protected operations
\* with every kind of credentials while the clock moves on (one request body).
NextGateway ==
    \/ AccountStep({1}, ValidForms, ValidLogins)
    \/ JobStep(1, CredentialKinds, {AppliedBody})
    \/ Tick

SpecGateway == Init /\ [][NextGateway]_vars

\* Jobs: the accounts alice and bob work on their jobs, one request at a
\* time, each with the token it holds.
NextJobs ==
    \/ AccountStep({1}, ValidForms, ValidLogins)
    \/ JobStep(1, {"none", "held"}, JobBodies)

SpecJobs == Init /\ [][NextJobs]_vars

(***************************************************************************)
(* Properties.                                                             *)
(***************************************************************************)
JobOps == {"get_jobs", "add_job", "delete_job", "update_job"}
Range(s) == { s[i] : i \in DOMAIN s }
JobsOf(rows, user_id) == { j \in rows : j.user_id = user_id }
UserIds == 1..MaxUserSeq

\* C1: a job request handled as user A leaves the jobs of every other user B
\* as they were; GET /jobs as A lists exactly the jobs whose user_id is A; and
\* PUT or DELETE as A of a job that A does not own changes no job at all.
C1_OwnerIsolation ==
    [][ (last'.op \in JobOps /\ last'.user_id # 0) =>
          /\ \A B \in UserIds \ {last'.user_id} : JobsOf(jobs', B) = JobsOf(jobs, B)
          /\ (last'.op = "get_jobs" /\ last'.status = 200) =>
                /\ jobs' = jobs
                /\ Range(last'.body) = JobsOf(jobs, last'.user_id)
                /\ \A i \in DOMAIN last'.body : last'.body[i].user_id = last'.user_id
          /\ (last'.op \in {"delete_job", "update_job"}
                /\ ~\E j \in jobs : j.id = last'.job_id /\ j.user_id = last'.user_id)
              => jobs' = jobs
      ]_vars

\* C1 witness: user A's DELETE named a job of another user, which is still there
C1_Witness ==
    /\ last.op = "delete_job" /\ last.status = 200
    /\ \E j \in jobs : j.id = last.job_id /\ j.user_id # last.user_id

\* C2: no two stored users share a username, an email or an id
C2_UniqueUsers ==
    \A u, v \in users :
        u # v => u.username # v.username /\ u.email # v.email /\ u.id # v.id

\* C2 witness: a signup that passed the pre-check waits to insert while a user
\* with its email or username has been committed meanwhile
C2_Witness ==
    \E c \in Clients :
        /\ pc[c] = "insert"
        /\ UniqueConflicts(users, frame[c].user[1].username, frame[c].user[1].email) # {}

\* the DuplicateCredential outcome of signup
DuplicateCredential(r) == r.status = 400 /\ r.detail = "User already exists"

\* C3: a signup (of input that passes the policy) whose email or username is
\* that of a stored user fails with DuplicateCredential, whether the pre-check
\* or the insert meets the duplicate
C3_DuplicateIsReported ==
    (/\ last.op = "signup"
     /\ last.status # 200
     /\ SignupValidation(last.form[1]) = ""
     /\ \E u \in users : u.email = last.form[1].email \/ u.username = last.form[1].username)
    => DuplicateCredential(last)

\* the stored users a login body names with the right password
LoginMatches(rows, form) ==
    { u \in rows : u.email = form.email /\ u.password_hash = hash_password(form.password) }

\* C4: login issues a token exactly when a stored user has the email and the
\* password hashes to that user's password_hash; the token carries that user's
\* id; otherwise it answers 401 without a token; and it never changes the
\* tables, nor the token a client holds when it fails.
C4_LoginOnlyWithPassword ==
    [][ last'.op = "login" =>
          LET matches == LoginMatches(users, last'.form[1]) IN
          /\ users' = users /\ jobs' = jobs
          /\ user_seq' = user_seq /\ job_seq' = job_seq
          /\ (last'.token # <<>>) <=> (matches # {})
          /\ matches # {} =>
                /\ last'.status = 200
                /\ \E u \in matches : /\ last'.token[1].claims.user_id = u.id
                                      /\ last'.user = <<UserView(u)>>
          /\ matches = {} =>
                /\ last'.status = 401 /\ last'.user = <<>>
                /\ held' = held
      ]_vars

\* C4 witness: a login with the email of a stored user and a wrong password
C4_Witness ==
    /\ last.op = "login" /\ last.status = 401
    /\ \E u \in users : u.email = last.form[1].email

\* C5: a token presented at the instant it was issued resolves to the user id
\* it was issued for
C5_TokenRoundTrip ==
    last.token # <<>> =>
        get_current_user(last.token[1], now) = Resolved(last.user[1].id)

\* C5 witness: a login has just issued a token for the second user, later
\* than the start of the clock
C5_Witness ==
    /\ last.op = "login" /\ last.token # <<>>
    /\ last.user[1].id = 2 /\ now > 0

\* C6: a token expires ACCESS_TOKEN_EXPIRE_MINUTES after its issue; the
\* token a client holds is rejected with 401 at every instant at or past its
\* expiry and resolves to its user at every instant before
C6_ExpiryIsExclusive ==
    /\ last.token # <<>> =>
          last.token[1].claims.exp = now + ACCESS_TOKEN_EXPIRE_MINUTES * 60
    /\ \A i \in DOMAIN held[1] :
          LET token == held[1][i] IN
          IF now >= token.claims.exp
            THEN get_current_user(token, now) = HTTPException(401, "Invalid token")
            ELSE get_current_user(token, now) = Resolved(token.claims.user_id)

\* C7: a request to a protected operation without Authorization header is
\* answered 401 and sends nothing to the store
C7_NoHeaderIs401 ==
    (last.op \in JobOps /\ last.creds = <<>>) =>
        /\ last.status = 401
        /\ last.dblog = <<>>

\* a token that is malformed, not signed with SECRET_KEY (another key, or
\* claims changed after signing), expired at t, or without user_id
FailsValidation(token, t) ==
    \/ ~token.wellformed
    \/ token.sig # <<SECRET_KEY, token.claims>>
    \/ token.claims.exp < t
    \/ "user_id" \notin DOMAIN token.claims

\* C8: every presented token that fails validation gets the same answer,
\* 401 "Invalid token", and the request sends nothing to the store
C8_UniformRejection ==
    (/\ last.op \in JobOps
     /\ last.creds # <<>>
     /\ FailsValidation(last.creds[1], now))
    => /\ last.status = 401
       /\ last.detail = "Invalid token"
       /\ last.user_id = 0
       /\ last.dblog = <<>>

\* C8 witness: the token of a stored user, presented after its expiry, was
\* rejected
C8_Witness ==
    /\ last.op \in JobOps /\ last.creds # <<>>
    /\ last.creds[1].wellformed
    /\ last.creds[1].sig = <<SECRET_KEY, last.creds[1].claims>>
    /\ "user_id" \in DOMAIN last.creds[1].claims
    /\ last.creds[1].claims.exp < now
    /\ last.status = 401

\* C9: a signup that breaks the username or password policy is answered 400
\* without a connection to the store being opened or a statement sent
C9_ValidationBeforeStore ==
    (/\ last.op = "signup"
     /\ \/ Len(last.form[1].username) < MinUsernameLen
        \/ Len(last.form[1].password) < MinPasswordLen)
    => /\ last.status = 400
       /\ last.dblog = <<>>

\* C10: a request that opened a connection has closed it when it ends
C10_ConnectionClosed ==
    (last.op # "none" /\ "connect" \in Range(last.dblog)) =>
        last.dblog[Len(last.dblog)] = "close"
====
